---- MODULE Spec2Model ----
(***************************************************************************)
(* Model of Scripts/miscScripts/jamfProMetricsReport.py: the Group Fetcher *)
(* getInfoSmartGroup and the __main__ block (aggregation loop, report      *)
(* output, separate-groups loop).                                          *)
(***************************************************************************)
EXTENDS Integers, Sequences, FiniteSets, TLC

\* ---------------------------------------------------------------- bounds
MaxIds == 3
MaxSep == 1
MaxCount == 1

\* ---------------------------------------------------------------- inputs
IDs == {"1", "2"}
Names == {"G-A", "G-B"}

SeqsUpTo(S, n) == UNION {[1..k -> S] : k \in 0..n}

\* The body of an HTTP response as ElementTree sees it: it parses or not,
\* it has a direct <name> child or not, and it holds some <computer> elements.
MalformedBody == [wellFormed |-> FALSE, hasName |-> FALSE, name |-> "", computers |-> 0]
NoNameBody == [wellFormed |-> TRUE, hasName |-> FALSE, name |-> "", computers |-> 0]
GoodBodies == {[wellFormed |-> TRUE, hasName |-> TRUE, name |-> n, computers |-> c] :
                 n \in Names, c \in 0..MaxCount}

ErrorStatuses == {404, 500}
OtherNon2xx == {304}

\* What requests.get can give back: an exception that is not an HTTPError
\* (no connection, invalid URL because the base URL is missing), or a response.
NoResponse == [exc |-> "unset", status |-> 0, body |-> MalformedBody]
Responses ==
    {[exc |-> "none", status |-> 200, body |-> b] :
        b \in GoodBodies \cup {NoNameBody, MalformedBody}}
    \cup {[exc |-> "none", status |-> s, body |-> MalformedBody] :
        s \in ErrorStatuses \cup OtherNon2xx}
    \cup {[exc |-> "ConnectionError", status |-> 0, body |-> MalformedBody]}

\* ---------------------------------------------------------------- values
None == [some |-> FALSE, name |-> "", count |-> 0]
Tuple(n, c) == [some |-> TRUE, name |-> n, count |-> c]

\* response.raise_for_status(): HTTPError for 4xx and 5xx only
RaisesForStatus(status) == status >= 400 /\ status < 600

\* getInfoSmartGroup(smartGroupID) on the response the server gives:
\* raised = the exception that escapes ("none" when it returns),
\* diag = the "HTTP Error:" line was printed, info = the return value.
getInfoSmartGroup(resp) ==
    IF resp.exc # "none"
        THEN [raised |-> resp.exc, diag |-> FALSE, info |-> None]
    ELSE IF RaisesForStatus(resp.status)
        THEN [raised |-> "none", diag |-> TRUE, info |-> None]
    ELSE IF ~resp.body.wellFormed
        THEN [raised |-> "ParseError", diag |-> FALSE, info |-> None]
    ELSE IF ~resp.body.hasName
        THEN [raised |-> "AttributeError", diag |-> FALSE, info |-> None]
    ELSE [raised |-> "none", diag |-> FALSE,
          info |-> Tuple(resp.body.name, resp.body.computers)]

\* ---------------------------------------------------------------- state
VARIABLES smartGroupIDs, totalEnrolledDevices, results, totalCount,
          smartgroupInfo, response, pc, i, raised, events

vars == <<smartGroupIDs, totalEnrolledDevices, results, totalCount,
          smartgroupInfo, response, pc, i, raised, events>>

\* events: what the run has done so far, in order (fetches and printed lines)
Event(k, l, g, n, c) == [kind |-> k, loop |-> l, gid |-> g, name |-> n, count |-> c]

FetchEvent(l, g, r) ==
    IF r.raised # "none" THEN Event("fetch_raise", l, g, r.raised, 0)
    ELSE IF r.info.some THEN Event("fetch_ok", l, g, r.info.name, r.info.count)
    ELSE Event("fetch_none", l, g, "", 0)

DiagEvents(l, g, r) ==
    IF r.diag THEN <<Event("print_http_error", l, g, "", 0)>> ELSE <<>>

Init ==
    /\ smartGroupIDs \in SeqsUpTo(IDs, MaxIds)
    /\ totalEnrolledDevices \in SeqsUpTo(IDs, MaxSep)
    /\ results = <<>>
    /\ totalCount = 0
    /\ smartgroupInfo = None
    /\ response = NoResponse
    /\ pc = "loop"
    /\ i = 1
    /\ raised = "none"
    /\ events = <<>>

\* variants of the loop body used to test the properties below
RECURSIVE InsertByCount(_, _)
InsertByCount(res, info) ==
    IF res = <<>> THEN <<info>>
    ELSE IF info.count > Head(res).count THEN <<info>> \o res
    ELSE <<Head(res)>> \o InsertByCount(Tail(res), info)

AppendResultSorted(res, info) == InsertByCount(res, info)

AppendResultDedup(res, info) ==
    IF \E k \in DOMAIN res : res[k].name = info.name THEN res ELSE Append(res, info)

AddCountEntries(total, info) == total + 1

NextIndexRetryOnce(k, info) ==
    IF ~info.some /\ ~\E n \in DOMAIN events : events[n].kind = "fetch_none"
        THEN k ELSE k + 1

MainIterEventsPrinting(g, r) ==
    DiagEvents("main", g, r) \o <<FetchEvent("main", g, r)>>
        \o (IF r.raised = "none" /\ r.info.some
              THEN <<Event("print_result", "", "", r.info.name, r.info.count)>>
              ELSE <<>>)

\* line 46
AppendResult(res, info) == Append(res, info)

\* line 47
AddCount(total, info) == total + info.count

\* the for statement steps to the next entry of the list
NextIndex(k, info) == k + 1

\* what one iteration of the aggregation loop does that is visible outside
MainIterEvents(g, r) == DiagEvents("main", g, r) \o <<FetchEvent("main", g, r)>>

\* lines 43-47, one iteration
AggregateStep ==
    /\ pc = "loop"
    /\ i <= Len(smartGroupIDs)
    /\ \E resp \in Responses :
         LET gid == smartGroupIDs[i]
             r == getInfoSmartGroup(resp)
         IN /\ response' = resp
            /\ events' = events \o MainIterEvents(gid, r)
            /\ IF r.raised # "none"
                 THEN /\ raised' = r.raised
                      /\ pc' = "aborted"
                      /\ UNCHANGED <<results, totalCount, smartgroupInfo, i>>
                 ELSE /\ smartgroupInfo' = r.info
                      /\ IF r.info.some
                           THEN /\ results' = AppendResult(results, r.info)
                                /\ totalCount' = AddCount(totalCount, r.info)
                           ELSE UNCHANGED <<results, totalCount>>
                      /\ i' = NextIndex(i, r.info)
                      /\ UNCHANGED <<raised, pc>>
    /\ UNCHANGED <<smartGroupIDs, totalEnrolledDevices>>

\* line 43, list exhausted
AggregateDone ==
    /\ pc = "loop"
    /\ i > Len(smartGroupIDs)
    /\ pc' = "output"
    /\ i' = 1
    /\ UNCHANGED <<smartGroupIDs, totalEnrolledDevices, results, totalCount,
                   smartgroupInfo, response, raised, events>>

\* lines 50-51, one iteration
PrintResult ==
    /\ pc = "output"
    /\ i <= Len(results)
    /\ events' = Append(events,
                   Event("print_result", "", "", results[i].name, results[i].count))
    /\ i' = i + 1
    /\ UNCHANGED <<smartGroupIDs, totalEnrolledDevices, results, totalCount,
                   smartgroupInfo, response, pc, raised>>

\* line 54
PrintTotal ==
    /\ pc = "output"
    /\ i > Len(results)
    /\ events' = Append(events, Event("print_total", "", "", "", totalCount))
    /\ pc' = "header"
    /\ UNCHANGED <<smartGroupIDs, totalEnrolledDevices, results, totalCount,
                   smartgroupInfo, response, i, raised>>

\* line 57
PrintHeader ==
    /\ pc = "header"
    /\ events' = Append(events, Event("print_header", "", "", "", 0))
    /\ pc' = "separate"
    /\ i' = 1
    /\ UNCHANGED <<smartGroupIDs, totalEnrolledDevices, results, totalCount,
                   smartgroupInfo, response, raised>>

\* variant of the separate-groups iteration that also totals what it fetches
SeparateStepCounting ==
    /\ pc = "separate"
    /\ i <= Len(totalEnrolledDevices)
    /\ \E resp \in Responses :
         LET gid == totalEnrolledDevices[i]
             r == getInfoSmartGroup(resp)
         IN /\ response' = resp
            /\ IF r.raised # "none"
                 THEN /\ raised' = r.raised
                      /\ pc' = "aborted"
                      /\ events' = events \o <<FetchEvent("separate", gid, r)>>
                      /\ UNCHANGED <<smartgroupInfo, i>>
                 ELSE /\ smartgroupInfo' = r.info
                      /\ events' = events \o DiagEvents("separate", gid, r)
                            \o <<FetchEvent("separate", gid, r)>>
                            \o (IF r.info.some
                                  THEN <<Event("print_sep_result", "", "",
                                               r.info.name, r.info.count)>>
                                  ELSE <<>>)
                      /\ i' = NextIndex(i, r.info)
                      /\ UNCHANGED <<raised, pc>>
            /\ totalCount' = IF r.raised = "none" /\ r.info.some
                                THEN totalCount + r.info.count ELSE totalCount
    /\ UNCHANGED <<smartGroupIDs, totalEnrolledDevices, results>>

\* lines 58-61, one iteration
SeparateStep ==
    /\ pc = "separate"
    /\ i <= Len(totalEnrolledDevices)
    /\ \E resp \in Responses :
         LET gid == totalEnrolledDevices[i]
             r == getInfoSmartGroup(resp)
         IN /\ response' = resp
            /\ IF r.raised # "none"
                 THEN /\ raised' = r.raised
                      /\ pc' = "aborted"
                      /\ events' = events \o <<FetchEvent("separate", gid, r)>>
                      /\ UNCHANGED <<smartgroupInfo, i>>
                 ELSE /\ smartgroupInfo' = r.info
                      /\ events' = events \o DiagEvents("separate", gid, r)
                            \o <<FetchEvent("separate", gid, r)>>
                            \o (IF r.info.some
                                  THEN <<Event("print_sep_result", "", "",
                                               r.info.name, r.info.count)>>
                                  ELSE <<>>)
                      /\ i' = NextIndex(i, r.info)
                      /\ UNCHANGED <<raised, pc>>
    /\ UNCHANGED <<smartGroupIDs, totalEnrolledDevices, results, totalCount>>

\* line 58, list exhausted: the script ends
SeparateDone ==
    /\ pc = "separate"
    /\ i > Len(totalEnrolledDevices)
    /\ pc' = "done"
    /\ UNCHANGED <<smartGroupIDs, totalEnrolledDevices, results, totalCount,
                   smartgroupInfo, response, i, raised, events>>

Next ==
    \/ AggregateStep
    \/ AggregateDone
    \/ PrintResult
    \/ PrintTotal
    \/ PrintHeader
    \/ SeparateStep
    \/ SeparateDone

Spec == Init /\ [][Next]_vars

\* ---------------------------------------------------------------- history
IsFetch(e) == e.kind \in {"fetch_ok", "fetch_none", "fetch_raise"}
IsMainFetch(e) == IsFetch(e) /\ e.loop = "main"
IsMainOk(e) == e.kind = "fetch_ok" /\ e.loop = "main"
IsResultLine(e) == e.kind = "print_result"

AllFetches == SelectSeq(events, IsFetch)
MainFetches == SelectSeq(events, IsMainFetch)
MainOk == SelectSeq(events, IsMainOk)
ResultLines == SelectSeq(events, IsResultLine)

InfoOf(e) == Tuple(e.name, e.count)
Infos(s) == [k \in DOMAIN s |-> InfoOf(s[k])]
Gids(s) == [k \in DOMAIN s |-> s[k].gid]
Occ(s, x) == Cardinality({k \in DOMAIN s : s[k] = x})
Has(kind) == \E k \in DOMAIN events : events[k].kind = kind

RECURSIVE SumCounts(_)
SumCounts(s) == IF s = <<>> THEN 0 ELSE Head(s).count + SumCounts(Tail(s))

LastFetchIs(loop, kind) ==
    /\ AllFetches # <<>>
    /\ AllFetches[Len(AllFetches)].loop = loop
    /\ AllFetches[Len(AllFetches)].kind = kind
LastFetchIn(loop) ==
    AllFetches # <<>> /\ AllFetches[Len(AllFetches)].loop = loop

\* the exception that ended the run came out of the aggregation loop
MainRaised == pc = "aborted" /\ LastFetchIn("main")

\* the server's answer is an ordinary per-identifier failure:
\* a status outside 2xx, or a body that is not a group document
Non2xx(resp) == resp.status < 200 \/ resp.status > 299
BadBody(resp) == ~resp.body.wellFormed \/ ~resp.body.hasName
OrdinaryFailure(resp) == resp.exc = "none" /\ (Non2xx(resp) \/ BadBody(resp))

AllIds == smartGroupIDs \o totalEnrolledDevices

\* ---------------------------------------------------------------- C1
\* C1: at every point between iterations of the aggregation loop, and ever
\* after, totalCount is the sum of the counts of the entries of results; a
\* step in which a fetch returns None changes neither results nor totalCount.
C1_TotalIsSum ==
    /\ [](totalCount = SumCounts(results))
    /\ [][(Len(events') > Len(events) /\ events'[Len(events')].kind = "fetch_none")
            => (results' = results /\ totalCount' = totalCount)]_vars

C1_Witness ==
    /\ pc = "loop"
    /\ Len(results) = 2
    /\ totalCount = 2
    /\ LastFetchIs("main", "fetch_none")

\* ---------------------------------------------------------------- C2
\* C2: results is exactly the sequence of the values the successful fetches
\* of the aggregation loop returned, in the order of the fetches (the input
\* order), failed fetches omitted; nothing is reordered or sorted by count.
C2_OrderPreserved == results = Infos(MainOk)

C2_Witness ==
    /\ pc = "output"
    /\ Len(MainFetches) = 3
    /\ MainFetches[1].kind = "fetch_ok"
    /\ MainFetches[2].kind = "fetch_none"
    /\ MainFetches[3].kind = "fetch_ok"
    /\ Len(results) = 2
    /\ results[1].count < results[2].count

\* ---------------------------------------------------------------- C3
\* C3: when the server's answer for an identifier of the aggregation loop is
\* an ordinary failure (bad status or unparsable body), no error is raised,
\* no entry is added, and the loop goes on: once the loop is left, every
\* identifier of the list has been fetched.
C3_FailureSkipped ==
    (OrdinaryFailure(response) /\ LastFetchIn("main"))
        => /\ raised = "none"
           /\ pc # "aborted"
           /\ LastFetchIs("main", "fetch_none")
           /\ Len(results) = Len(MainOk)
           /\ (pc # "loop" => Len(MainFetches) = Len(smartGroupIDs))

\* ---------------------------------------------------------------- C4
\* C4: for a response with a non-2xx status, and for one whose body does not
\* parse or lacks the name element, getInfoSmartGroup raises nothing and
\* returns None, having printed a diagnostic line.
C4_NeverRaises ==
    OrdinaryFailure(response)
        => /\ raised = "none"
           /\ AllFetches[Len(AllFetches)].kind = "fetch_none"
           /\ \E k \in DOMAIN events :
                /\ events[k].kind = "print_http_error"
                /\ k + 1 \in DOMAIN events
                /\ events[k + 1] = AllFetches[Len(AllFetches)]

\* ---------------------------------------------------------------- C5
\* C5: when the run has ended and no fetch of the aggregation loop returned a
\* group (the list is empty, or every fetch met an ordinary failure), results
\* is empty, totalCount is 0, no exception came out of the aggregation loop,
\* and the total line was printed.
EveryMainFetchFailed ==
    \A k \in DOMAIN MainFetches :
        \/ MainFetches[k].kind = "fetch_none"
        \/ /\ MainFetches[k].kind = "fetch_raise"
           /\ MainFetches[k].name \in {"ParseError", "AttributeError"}

C5_NothingFetched ==
    (pc \in {"done", "aborted"} /\ EveryMainFetchFailed)
        => /\ results = <<>>
           /\ totalCount = 0
           /\ ~MainRaised
           /\ Has("print_total")

\* ---------------------------------------------------------------- C6
\* C6 as stated: the fetches are made once per list entry in list order, a
\* failed fetch is never followed by another fetch of the same identifier,
\* and no identifier is fetched more often than it occurs in the lists.
FetchedInListOrder ==
    /\ Len(AllFetches) <= Len(AllIds)
    /\ Gids(AllFetches) = SubSeq(AllIds, 1, Len(AllFetches))
    /\ (pc = "done" => Len(AllFetches) = Len(AllIds))
    /\ \A id \in IDs : Occ(Gids(AllFetches), id) <= Occ(AllIds, id)

C6_NoRefetchAfterFailure ==
    /\ FetchedInListOrder
    /\ \A p, q \in DOMAIN AllFetches :
         (p < q /\ AllFetches[p].kind # "fetch_ok")
            => AllFetches[q].gid # AllFetches[p].gid

\* C6 amended: the identifiers fetched so far are, in order, an initial part
\* of smartGroupIDs followed by totalEnrolledDevices, all of it when the run
\* reaches its end; so each list entry is fetched once, a failed fetch is
\* followed by the fetch of the next entry, and no identifier is fetched more
\* often than it occurs in the two lists together.
C6_OncePerEntry ==
    /\ FetchedInListOrder
    /\ \A p \in DOMAIN AllFetches :
         (AllFetches[p].kind = "fetch_none" /\ p < Len(AllFetches))
            => AllFetches[p + 1].gid = AllIds[p + 1]

C6_Witness ==
    /\ pc = "done"
    /\ Len(AllFetches) = 4
    /\ AllFetches[1].kind = "fetch_none"
    /\ AllFetches[4].gid = AllFetches[1].gid
    /\ AllFetches[4].loop = "separate"
    /\ AllFetches[2].gid # AllFetches[1].gid

\* ---------------------------------------------------------------- C7
\* C7: an exception comes out of the aggregation loop only for a systemic
\* failure of the fetch (never for an individual failed fetch); the loop then
\* stops at that identifier and neither a result line nor the total line is
\* printed.
C7_OnlySystemicPropagates ==
    MainRaised
        => /\ ~OrdinaryFailure(response)
           /\ Len(MainFetches) = i
           /\ ~Has("print_result")
           /\ ~Has("print_total")

\* ---------------------------------------------------------------- C8
\* C8: once the aggregation loop has run to its end, each identifier has been
\* fetched as many times as it occurs in smartGroupIDs; and every successful
\* fetch has its own entry in results and its own count in totalCount.
C8_NoDeduplication ==
    /\ (pc \in {"output", "header", "separate", "done"} \/ (pc = "aborted" /\ ~MainRaised))
          => \A id \in IDs : Occ(Gids(MainFetches), id) = Occ(smartGroupIDs, id)
    /\ Len(results) = Len(MainOk)
    /\ totalCount = SumCounts(MainOk)

C8_Witness ==
    /\ pc = "output"
    /\ Len(smartGroupIDs) >= 2
    /\ smartGroupIDs[1] = smartGroupIDs[2]
    /\ Len(results) = 2
    /\ results[1].name = results[2].name
    /\ results[1].count # results[2].count
    /\ totalCount = 1

\* ---------------------------------------------------------------- C9
\* C9: after the aggregation loop no step changes results or totalCount, and
\* no step of the run changes smartGroupIDs or totalEnrolledDevices.
C9_ReportFrozen ==
    [][/\ (pc # "loop" => (results' = results /\ totalCount' = totalCount))
       /\ smartGroupIDs' = smartGroupIDs
       /\ totalEnrolledDevices' = totalEnrolledDevices]_vars

C9_Witness ==
    /\ pc = "done"
    /\ Len(results) = 1
    /\ LastFetchIs("separate", "fetch_ok")
    /\ AllFetches[Len(AllFetches)].count = 1
    /\ totalCount = 0

\* ---------------------------------------------------------------- C10
\* C10: a result line is printed only when every identifier of smartGroupIDs
\* has been fetched; the result lines printed so far are an initial part of
\* results; the total line comes after all of them; the header and the
\* fetches of the separate groups come after the total line.
C10_OutputOrder ==
    /\ Len(ResultLines) <= Len(results)
    /\ Infos(ResultLines) = SubSeq(results, 1, Len(ResultLines))
    /\ \A p, q \in DOMAIN events :
         p < q =>
            /\ (events[p].kind \in {"print_result", "print_total", "print_header"}
                    => ~IsMainFetch(events[q]))
            /\ (events[p].kind \in {"print_total", "print_header"}
                    => events[q].kind # "print_result")
            /\ (events[q].kind = "print_total" => events[p].kind # "print_header")
    /\ \A q \in DOMAIN events :
         /\ (events[q].kind = "print_result"
                => Len(SelectSeq(SubSeq(events, 1, q), IsMainFetch)) = Len(smartGroupIDs))
         /\ (events[q].kind = "print_total"
                => Len(SelectSeq(SubSeq(events, 1, q), IsResultLine)) = Len(results))
         /\ (events[q].kind = "print_header"
                => q > 1 /\ events[q - 1].kind = "print_total")
         /\ ((events[q].loop = "separate" \/ events[q].kind = "print_sep_result")
                => \E t \in 1..(q - 1) : events[t].kind = "print_header")

C10_Witness ==
    /\ pc = "done"
    /\ Len(ResultLines) = 2
    /\ ResultLines[1] # ResultLines[2]
    /\ Has("print_sep_result")

====
